---- MODULE Spec2Model ----
(***************************************************************************)
(* Snake game (sfelf/snake-game): the models (Snake, Fruit, ScoreManager,  *)
(* GameStateManager), the input mapping (InputHandler) and the game loop   *)
(* (GameController), as state machines.                                    *)
(*                                                                         *)
(* Objects are records with the fields of the Python classes; a method is  *)
(* an operator from the object (and its arguments) to the object after the *)
(* call, with a second operator  <method>_result  for its return value.    *)
(* A method whose outcome depends on random.randint or on the file system  *)
(* is an operator to the SET of its possible outcomes.                     *)
(*                                                                         *)
(* Specifications:                                                         *)
(*   Spec       the GameController running its loop                        *)
(*   SpecRun    the same with the control flow of run() (quit and exit)    *)
(*   SpecSnake  a Snake object under arbitrary calls of its methods        *)
(*   SpecFruit  Fruit.spawn on arbitrary grids and occupied lists          *)
(*                                                                         *)
(* The cosmetic parts (fruit_type, colours, audio, pixels) are left out:   *)
(* nothing in the simulation reads them.                                   *)
(***************************************************************************)
EXTENDS Integers, Sequences, FiniteSets, TLC

(***************************************************************************)
(* Bounds of the model.  The grid, the initial snake length and the speed  *)
(* ramp are the program's GameConstants scaled down (40 x 30, 5 and 10 in  *)
(* utils/constants.py) so that walls, self collisions, the speed floor and *)
(* a full interior are all within reach of the model checker.              *)
(***************************************************************************)
GRID_WIDTH == 4

GRID_HEIGHT == 4

INITIAL_SNAKE_LENGTH == 3

SPEED_INCREASE == 100

\* Fruit a run may eat, over all its games, before the exploration stops
\* following it.
MaxFruits == 2

\* Fruit a run of SpecRun may eat before the exploration stops following it.
MaxRunFruits == 1

\* Key presses within which C31 looks for a way back to PLAYING.
MaxKeyPresses == 3

\* The clock of Spec advances in quanta of this many milliseconds.
TimeStep == 100

\* SpecSnake: largest length argument of Snake() / reset(), largest snake.
MaxInitLen == 3

MaxSnakeLen == 5

\* SpecFruit: grids of 2 x 2 up to MaxGrid x MaxGrid.
MaxGrid == 4

\* SpecScore: the largest score handed to a ScoreManager or held by a store.
MaxScore == 2

\* SpecScore: the longest list a store holds before the first write.
MaxStoreLen == 2

\* SpecScore: the largest max_scores a ScoreManager is constructed with.
MaxMaxScores == 2

(***************************************************************************)
(* Program constants (utils/constants.py, models/score.py).                *)
(***************************************************************************)
INITIAL_SPEED == 200

MIN_SPEED == 50

POINTS_PER_FRUIT == 4

MAX_SCORES == 5

(***************************************************************************)
(* enums.py                                                                *)
(***************************************************************************)
Direction == {"UP", "DOWN", "LEFT", "RIGHT"}

\* Direction.<d>.value
DirectionValue(d) ==
  CASE d = "UP"    -> <<0, -1>>
    [] d = "DOWN"  -> <<0, 1>>
    [] d = "LEFT"  -> <<-1, 0>>
    [] d = "RIGHT" -> <<1, 0>>

GameState == {"SPLASH", "PLAYING", "GAME_OVER", "HIGH_SCORES", "CONFIRM_RESET"}

\* Python's None
None == "None"

Max(a, b) == IF a >= b THEN a ELSE b

Min(a, b) == IF a <= b THEN a ELSE b

\* The elements of a Python list, for  x in list .
Elems(seq) == {seq[i] : i \in 1..Len(seq)}

(***************************************************************************)
(* models/snake.py                                                         *)
(***************************************************************************)
\* Snake.__init__: segments (start_x - i, start_y) for i in range(length).
Snake_init(initial_length, start_x, start_y) ==
  [segments       |-> [i \in 1..initial_length |-> <<start_x - (i - 1), start_y>>],
   direction      |-> "RIGHT",
   next_direction |-> "RIGHT"]

\* Snake.head
Snake_head(s) == IF Len(s.segments) > 0 THEN s.segments[1] ELSE <<0, 0>>

\* Snake.length
Snake_length(s) == Len(s.segments)

\* The opposite_directions table of set_direction.
opposite_directions(d) ==
  CASE d = "UP"    -> "DOWN"
    [] d = "DOWN"  -> "UP"
    [] d = "LEFT"  -> "RIGHT"
    [] d = "RIGHT" -> "LEFT"

\* Mutant: the reversal test reads the pending direction.
Snake_set_direction_pending(s, new_direction) ==
  IF new_direction /= opposite_directions(s.next_direction)
  THEN [s EXCEPT !.next_direction = new_direction]
  ELSE s

\* Snake.set_direction: the snake after the call.
Snake_set_direction(s, new_direction) ==
  IF new_direction /= opposite_directions(s.direction)
  THEN [s EXCEPT !.next_direction = new_direction]
  ELSE s

\* Snake.set_direction: its return value.
Snake_set_direction_result(s, new_direction) ==
  new_direction /= opposite_directions(s.direction)

\* list.pop() on a non-empty list; IndexError on an empty one is not
\* reachable from move, which inserts first.
Pop(seq) == SubSeq(seq, 1, Len(seq) - 1)

\* Mutant: the tail is popped on every move, growing or not.
Snake_move_always_pop(s, grow) ==
  LET head     == Snake_head(s)
      d        == DirectionValue(s.next_direction)
      new_head == <<head[1] + d[1], head[2] + d[2]>>
  IN  [s EXCEPT !.direction = s.next_direction,
                !.segments  = Pop(<<new_head>> \o s.segments)]

\* Mutant: the tail is popped before the head is added, and the head is
\* added only when growing (the naive unconditional tail-pop).
Snake_move_pop_first(s, grow) ==
  LET head     == Snake_head(s)
      d        == DirectionValue(s.next_direction)
      new_head == <<head[1] + d[1], head[2] + d[2]>>
  IN  [s EXCEPT !.direction = s.next_direction,
                !.segments  = IF grow THEN <<new_head>> \o s.segments
                                      ELSE Pop(s.segments)]

\* Mutant: the new head is computed from the direction of the last move,
\* before next_direction is promoted.
Snake_move_old_direction(s, grow) ==
  LET head     == Snake_head(s)
      d        == DirectionValue(s.direction)
      new_head == <<head[1] + d[1], head[2] + d[2]>>
      inserted == <<new_head>> \o s.segments
  IN  [s EXCEPT !.direction = s.next_direction,
                !.segments  = IF grow THEN inserted ELSE Pop(inserted)]

\* Mutant: the new head is computed from the last segment instead of the
\* head.
Snake_move_from_tail(s, grow) ==
  LET last     == IF Len(s.segments) > 0 THEN s.segments[Len(s.segments)] ELSE <<0, 0>>
      d        == DirectionValue(s.next_direction)
      new_head == <<last[1] + d[1], last[2] + d[2]>>
      inserted == <<new_head>> \o s.segments
  IN  [s EXCEPT !.direction = s.next_direction,
                !.segments  = IF grow THEN inserted ELSE Pop(inserted)]

\* Snake.move: the snake after the call.
Snake_move(s, grow) ==
  LET head     == Snake_head(s)
      d        == DirectionValue(s.next_direction)
      new_head == <<head[1] + d[1], head[2] + d[2]>>
      inserted == <<new_head>> \o s.segments
  IN  [s EXCEPT !.direction = s.next_direction,
                !.segments  = IF grow THEN inserted ELSE Pop(inserted)]

\* Snake.move: its return value, new_head.
Snake_move_result(s, grow) ==
  LET head == Snake_head(s)
      d    == DirectionValue(s.next_direction)
  IN  <<head[1] + d[1], head[2] + d[2]>>

\* Mutant: the head is looked up in the whole list, itself included.
Snake_check_self_collision_whole_list(s) ==
  \E i \in 1..Len(s.segments) : s.segments[i] = Snake_head(s)

\* Snake.check_self_collision: head in segments[1:]
Snake_check_self_collision(s) ==
  \E i \in 2..Len(s.segments) : s.segments[i] = Snake_head(s)

\* Mutant: the right and bottom walls are one cell too far.
Snake_check_wall_collision_off_by_one(s, grid_width, grid_height) ==
  LET head == Snake_head(s)
  IN  head[1] < 0 \/ head[1] > grid_width \/ head[2] < 0 \/ head[2] > grid_height

\* Mutant: only the right and bottom walls are tested.
Snake_check_wall_collision_upper_only(s, grid_width, grid_height) ==
  LET head == Snake_head(s)
  IN  head[1] >= grid_width \/ head[2] >= grid_height

\* Snake.check_wall_collision
Snake_check_wall_collision(s, grid_width, grid_height) ==
  LET head == Snake_head(s)
  IN  head[1] < 0 \/ head[1] >= grid_width \/ head[2] < 0 \/ head[2] >= grid_height

\* Mutant: the segments are rebuilt and the directions are kept.
Snake_reset_keeps_direction(s, initial_length, start_x, start_y) ==
  [s EXCEPT !.segments =
     [i \in 1..initial_length |-> <<start_x - (i - 1), start_y>>]]

\* Snake.reset
Snake_reset(s, initial_length, start_x, start_y) ==
  [segments       |-> [i \in 1..initial_length |-> <<start_x - (i - 1), start_y>>],
   direction      |-> "RIGHT",
   next_direction |-> "RIGHT"]


(***************************************************************************)
(* models/fruit.py                                                         *)
(***************************************************************************)
\* Fruit.__init__
Fruit_init(grid_width, grid_height) ==
  [grid_width |-> grid_width, grid_height |-> grid_height, position |-> <<0, 0>>]

\* The cells random.randint(1, grid_width - 2), random.randint(1, grid_height - 2)
\* can produce.
SpawnCells(f) ==
  {<<x, y>> : x \in 1..(f.grid_width - 2), y \in 1..(f.grid_height - 2)}

\* Mutant: the sampled cell is accepted without the occupied test.
Fruit_spawn_unchecked(f, occupied_positions) ==
  IF f.grid_width - 2 < 1 \/ f.grid_height - 2 < 1
  THEN {[fruit |-> f, outcome |-> "raised"]}
  ELSE {[fruit |-> [f EXCEPT !.position = p], outcome |-> "returned"] :
          p \in SpawnCells(f)}

\* Fruit.spawn: the possible outcomes of the call.
\*   "returned"  an iteration sampled a cell that is not in occupied_positions:
\*               position is set to it and the loop is left by break;
\*   "loops"     every cell the sampling can produce is in occupied_positions:
\*               no iteration can take the break, the only exit of while True;
\*   "raised"    random.randint(1, n) with n < 1 raises ValueError.
Fruit_spawn(f, occupied_positions) ==
  IF f.grid_width - 2 < 1 \/ f.grid_height - 2 < 1
  THEN {[fruit |-> f, outcome |-> "raised"]}
  ELSE LET free == SpawnCells(f) \ Elems(occupied_positions)
       IN  IF free = {}
           THEN {[fruit |-> f, outcome |-> "loops"]}
           ELSE {[fruit |-> [f EXCEPT !.position = p], outcome |-> "returned"] :
                   p \in free}

\* Fruit.is_eaten_by
Fruit_is_eaten_by(f, position) == f.position = position

(***************************************************************************)
(* models/game_state.py                                                    *)
(***************************************************************************)
\* GameStateManager.__init__
GameStateManager_init ==
  [current_state |-> "SPLASH", previous_state |-> None]

\* Mutant: the history is recorded on every call, also when the state is
\* the one the manager is in.
GameStateManager_set_state_always_records(m, new_state) ==
  [current_state |-> new_state, previous_state |-> m.current_state]

\* GameStateManager.set_state
GameStateManager_set_state(m, new_state) ==
  IF new_state /= m.current_state
  THEN [current_state |-> new_state, previous_state |-> m.current_state]
  ELSE m

\* GameStateManager.is_state
GameStateManager_is_state(m, state) == m.current_state = state

\* GameStateManager.reset
GameStateManager_reset(m) ==
  [current_state |-> "SPLASH", previous_state |-> m.current_state]

(***************************************************************************)
(* models/score.py.  The backing store is a record                         *)
(*   [kind |-> "missing", scores |-> <<>>]   no file at scores_file        *)
(*   [kind |-> "corrupt", scores |-> <<>>]   content json.load rejects     *)
(*   [kind |-> "list",    scores |-> l]      the JSON list of integers l   *)
(*   [kind |-> "unreadable", scores |-> <<>>] open(.., 'r') raises IOError *)
(*   [kind |-> "scalar",  scores |-> <<>>]   valid JSON that is no list: a *)
(*                                           number or null                *)
(*   [kind |-> "undecodable", scores |-> <<>>] bytes that are not UTF-8    *)
(***************************************************************************)
MissingFile == [kind |-> "missing", scores |-> <<>>]

CorruptFile == [kind |-> "corrupt", scores |-> <<>>]

UnreadableFile == [kind |-> "unreadable", scores |-> <<>>]

ScalarFile == [kind |-> "scalar", scores |-> <<>>]

UndecodableFile == [kind |-> "undecodable", scores |-> <<>>]

ListFile(l) == [kind |-> "list", scores |-> l]

RECURSIVE InsertDesc(_, _)
InsertDesc(x, sorted) ==
  IF sorted = <<>> THEN <<x>>
  ELSE IF x >= Head(sorted) THEN <<x>> \o sorted
  ELSE <<Head(sorted)>> \o InsertDesc(x, Tail(sorted))

\* sorted(scores, reverse=True)
RECURSIVE SortedReverse(_)
SortedReverse(scores) ==
  IF scores = <<>> THEN <<>>
  ELSE InsertDesc(Head(scores), SortedReverse(Tail(scores)))

\* list[:n]
Truncate(list, n) == SubSeq(list, 1, Min(n, Len(list)))

\* ScoreManager._load_high_scores
ScoreManager_load_high_scores(file, max_scores) ==
  IF file.kind = "list"
  THEN Truncate(SortedReverse(file.scores), max_scores)
  ELSE [i \in 1..max_scores |-> 0]

\* ScoreManager._load_high_scores: whether the call raises.  The except
\* clause catches json.JSONDecodeError and IOError only; sorted() of a JSON
\* number or null raises TypeError and reading bytes that are not UTF-8
\* raises UnicodeDecodeError: both leave the constructor.
ScoreManager_load_high_scores_raises(file) == file.kind \in {"scalar", "undecodable"}

\* ScoreManager.__init__
ScoreManager_init(file, max_scores) ==
  [max_scores    |-> max_scores,
   current_score |-> 0,
   high_scores   |-> ScoreManager_load_high_scores(file, max_scores)]

\* ScoreManager._save_high_scores: the store after the call.  open(.., 'w')
\* raising IOError leaves the store as it was.
ScoreManager_save_high_scores(sm, file, writable) ==
  IF writable THEN ListFile(sm.high_scores) ELSE file

\* ScoreManager.add_points
ScoreManager_add_points(sm, points) ==
  [sm EXCEPT !.current_score = sm.current_score + points]

\* ScoreManager.reset_current_score
ScoreManager_reset_current_score(sm) == [sm EXCEPT !.current_score = 0]

\* The default of the optional argument:  if score is None: score = self.current_score
ScoreOrCurrent(sm) == sm.current_score

\* ScoreManager.update_high_scores(score): the manager after the call.
ScoreManager_update_high_scores(sm, score) ==
  IF score > 0
  THEN [sm EXCEPT !.high_scores =
          Truncate(SortedReverse(Append(sm.high_scores, score)), sm.max_scores)]
  ELSE sm

\* Mutant: the list is saved whatever the score is.
ScoreManager_update_high_scores_store_always_saves(sm, score, file, writable) ==
  ScoreManager_save_high_scores(ScoreManager_update_high_scores(sm, score),
                                file, writable)

\* Mutant: the list is saved before the score is inserted.
ScoreManager_update_high_scores_store_stale(sm, score, file, writable) ==
  IF score > 0 THEN ScoreManager_save_high_scores(sm, file, writable) ELSE file

\* ScoreManager.update_high_scores(score): the store after the call.
ScoreManager_update_high_scores_store(sm, score, file, writable) ==
  IF score > 0
  THEN ScoreManager_save_high_scores(ScoreManager_update_high_scores(sm, score),
                                     file, writable)
  ELSE file

\* Mutant: every inserted score is reported as a new high score.
ScoreManager_update_high_scores_result_always(sm, score) == score > 0

\* ScoreManager.update_high_scores(score): its return value.
ScoreManager_update_high_scores_result(sm, score) ==
  IF score > 0
  THEN score \in Elems(Truncate(ScoreManager_update_high_scores(sm, score).high_scores,
                                sm.max_scores))
  ELSE FALSE

\* ScoreManager.reset_high_scores: the manager after the call.
ScoreManager_reset_high_scores(sm) ==
  [sm EXCEPT !.high_scores = [i \in 1..sm.max_scores |-> 0]]

\* ScoreManager.reset_high_scores: the store after the call.
ScoreManager_reset_high_scores_store(sm, file, writable) ==
  ScoreManager_save_high_scores(ScoreManager_reset_high_scores(sm), file, writable)

\* min(list) of a non-empty list
RECURSIVE MinOf(_)
MinOf(list) ==
  IF Len(list) = 1 THEN list[1] ELSE Min(Head(list), MinOf(Tail(list)))

\* ScoreManager.is_high_score(score): whether the call raises.  min() of an
\* empty list raises ValueError.
ScoreManager_is_high_score_raises(sm) == sm.high_scores = <<>>

\* Mutant: a zero entry does not make every score a high score.
ScoreManager_is_high_score_beats_min(sm, score) == score > MinOf(sm.high_scores)

\* ScoreManager.is_high_score(score)
ScoreManager_is_high_score(sm, score) ==
  score > MinOf(sm.high_scores) \/ 0 \in Elems(sm.high_scores)

(***************************************************************************)
(* controllers/input_handler.py.  An event is [type, key]; the key of an   *)
(* event that is no KEYDOWN is not read.  K_a stands for every key the     *)
(* handler has no case for.                                                *)
(***************************************************************************)
Keys == {"K_q", "K_r", "K_UP", "K_DOWN", "K_LEFT", "K_RIGHT", "K_SPACE", "K_h",
         "K_ESCAPE", "K_y", "K_n", "K_a"}

EventTypes == {"KEYDOWN", "KEYUP", "QUIT"}

\* Mutant: the splash screen takes H to the high scores.
handle_splash_input_high_scores(event) ==
  IF event.key = "K_r" THEN "show_reset_confirm"
  ELSE IF event.key = "K_h" THEN "show_high_scores"
  ELSE "start_game"

\* InputHandler._handle_splash_input
handle_splash_input(event) ==
  IF event.key = "K_r" THEN "show_reset_confirm" ELSE "start_game"

\* Mutant: R is not handled during the game.
handle_playing_input_no_reset(event) ==
  CASE event.key = "K_UP"    -> "move_up"
    [] event.key = "K_DOWN"  -> "move_down"
    [] event.key = "K_LEFT"  -> "move_left"
    [] event.key = "K_RIGHT" -> "move_right"
    [] OTHER                 -> None

\* InputHandler._handle_playing_input; direction_map.get(key) is None for
\* a key that is not in the map.
handle_playing_input(event) ==
  IF event.key = "K_r" THEN "show_reset_confirm"
  ELSE CASE event.key = "K_UP"    -> "move_up"
         [] event.key = "K_DOWN"  -> "move_down"
         [] event.key = "K_LEFT"  -> "move_left"
         [] event.key = "K_RIGHT" -> "move_right"
         [] OTHER                 -> None

\* Mutant: the game over screen also takes ESCAPE back to the splash screen.
handle_game_over_input_escape(event) ==
  IF event.key = "K_SPACE" THEN "restart_game"
  ELSE IF event.key = "K_h" THEN "show_high_scores"
  ELSE IF event.key = "K_r" THEN "show_reset_confirm"
  ELSE IF event.key = "K_ESCAPE" THEN "show_splash"
  ELSE None

\* Mutant: the game over screen passes the direction keys on.
handle_game_over_input_directions(event) ==
  IF event.key = "K_SPACE" THEN "restart_game"
  ELSE IF event.key = "K_h" THEN "show_high_scores"
  ELSE IF event.key = "K_r" THEN "show_reset_confirm"
  ELSE CASE event.key = "K_UP"    -> "move_up"
         [] event.key = "K_DOWN"  -> "move_down"
         [] event.key = "K_LEFT"  -> "move_left"
         [] event.key = "K_RIGHT" -> "move_right"
         [] OTHER                 -> None

\* InputHandler._handle_game_over_input
handle_game_over_input(event) ==
  IF event.key = "K_SPACE" THEN "restart_game"
  ELSE IF event.key = "K_h" THEN "show_high_scores"
  ELSE IF event.key = "K_r" THEN "show_reset_confirm"
  ELSE None

\* InputHandler._handle_high_scores_input
handle_high_scores_input(event) ==
  IF event.key = "K_SPACE" THEN "restart_game"
  ELSE IF event.key = "K_ESCAPE" THEN "show_splash"
  ELSE IF event.key = "K_r" THEN "show_reset_confirm"
  ELSE None

\* InputHandler._handle_confirm_reset_input
handle_confirm_reset_input(event) ==
  IF event.key = "K_y" THEN "confirm_reset"
  ELSE IF event.key = "K_n" \/ event.key = "K_ESCAPE" THEN "cancel_reset"
  ELSE None

\* InputHandler.handle_event
handle_event(event, current_state) ==
  IF event.type /= "KEYDOWN" THEN None
  ELSE IF event.key = "K_q" THEN "quit"
  ELSE CASE current_state = "SPLASH"        -> handle_splash_input(event)
         [] current_state = "PLAYING"       -> handle_playing_input(event)
         [] current_state = "GAME_OVER"     -> handle_game_over_input(event)
         [] current_state = "HIGH_SCORES"   -> handle_high_scores_input(event)
         [] current_state = "CONFIRM_RESET" -> handle_confirm_reset_input(event)
         [] OTHER                           -> None

\* InputHandler.get_direction_from_action
get_direction_from_action(action) ==
  CASE action = "move_up"    -> "UP"
    [] action = "move_down"  -> "DOWN"
    [] action = "move_left"  -> "LEFT"
    [] action = "move_right" -> "RIGHT"
    [] OTHER                 -> None

(***************************************************************************)
(* State.                                                                  *)
(*   snake, fruit, state_manager, score_manager, speed                     *)
(*                    the fields of the GameController of the same names   *)
(*   since_last_move  pygame.time.get_ticks() - last_move_time, saturated  *)
(*                    at INITIAL_SPEED (the largest value speed takes):    *)
(*                    _update reads the two only through this difference   *)
(*   scores_file      the content of high_scores.json                      *)
(*   store_writable   whether open(scores_file, 'w') succeeds              *)
(*   running          the local variable of run()                          *)
(*   loop             where run() is: "events" in the while loop,          *)
(*                    "exited" after it                                    *)
(*   halt             "running", or how control left the loop for good:    *)
(*                    "loops" inside Fruit.spawn, "raised" by an exception *)
(*   hs_log           history: the number of update_high_scores calls      *)
(*                    since the last _reset_game, and the score of the     *)
(*                    last one                                             *)
(*   eaten            history: the number of _eat_fruit calls so far       *)
(*   call             history of SpecSnake and SpecFruit: the last method  *)
(*                    call, its arguments and what it returned             *)
(***************************************************************************)
VARIABLES snake, fruit, state_manager, score_manager, speed, since_last_move,
          scores_file, store_writable, running, loop, halt, hs_log, eaten, call

vars == <<snake, fruit, state_manager, score_manager, speed, since_last_move,
          scores_file, store_writable, running, loop, halt, hs_log, eaten, call>>

\* The GameController and its environment as one value.
controller ==
  [snake           |-> snake,
   fruit           |-> fruit,
   state_manager   |-> state_manager,
   score_manager   |-> score_manager,
   speed           |-> speed,
   since_last_move |-> since_last_move,
   scores_file     |-> scores_file,
   store_writable  |-> store_writable,
   halt            |-> halt,
   hs_log          |-> hs_log,
   eaten           |-> eaten]

\* The next state holds the controller c.
Becomes(c) ==
  /\ snake' = c.snake
  /\ fruit' = c.fruit
  /\ state_manager' = c.state_manager
  /\ score_manager' = c.score_manager
  /\ speed' = c.speed
  /\ since_last_move' = c.since_last_move
  /\ scores_file' = c.scores_file
  /\ store_writable' = c.store_writable
  /\ halt' = c.halt
  /\ hs_log' = c.hs_log
  /\ eaten' = c.eaten

NoCall == [op |-> "none"]

(***************************************************************************)
(* controllers/game_controller.py.  An operator maps the controller before *)
(* a method to the set of controllers the method can leave (one for each   *)
(* cell Fruit.spawn can choose).  A controller whose halt is not "running" *)
(* has left the program's normal control flow: the statements after the    *)
(* call that halted are not executed.                                      *)
(***************************************************************************)
\* Mutant: a new game keeps the score of the last one.
reset_game_keeps_score(c) ==
  LET s1 == Snake_reset(c.snake, INITIAL_SNAKE_LENGTH,
                        GRID_WIDTH \div 2, GRID_HEIGHT \div 2)
      c1 == [c EXCEPT !.snake = s1, !.hs_log = [calls |-> 0, score |-> 0]]
  IN  {IF o.outcome = "returned"
       THEN [c1 EXCEPT !.fruit = o.fruit, !.speed = INITIAL_SPEED]
       ELSE [c1 EXCEPT !.halt = o.outcome] :
         o \in Fruit_spawn(c.fruit, s1.segments)}

\* GameController._reset_game
reset_game(c) ==
  LET s1 == Snake_reset(c.snake, INITIAL_SNAKE_LENGTH,
                        GRID_WIDTH \div 2, GRID_HEIGHT \div 2)
      c1 == [c EXCEPT !.snake = s1, !.hs_log = [calls |-> 0, score |-> 0]]
  IN  {IF o.outcome = "returned"
       THEN [c1 EXCEPT !.fruit = o.fruit,
                       !.score_manager = ScoreManager_reset_current_score(c.score_manager),
                       !.speed = INITIAL_SPEED]
       ELSE [c1 EXCEPT !.halt = o.outcome] :
         o \in Fruit_spawn(c.fruit, s1.segments)}

\* GameController._start_game (and _restart_game, which only calls it);
\* last_move_time = get_ticks() makes the time since the last move 0.
start_game(c) ==
  {IF c1.halt /= "running" THEN c1
   ELSE [c1 EXCEPT !.state_manager = GameStateManager_set_state(c1.state_manager, "PLAYING"),
                   !.since_last_move = 0] :
     c1 \in reset_game(c)}

\* GameController._game_over
game_over(c) ==
  LET score == ScoreOrCurrent(c.score_manager)
  IN  [c EXCEPT !.state_manager = GameStateManager_set_state(c.state_manager, "GAME_OVER"),
                !.score_manager = ScoreManager_update_high_scores(c.score_manager, score),
                !.scores_file   = ScoreManager_update_high_scores_store(
                                    c.score_manager, score, c.scores_file, c.store_writable),
                !.hs_log        = [calls |-> c.hs_log.calls + 1, score |-> score]]

\* Mutant: the speed is decreased without the MIN_SPEED floor.
eat_fruit_no_floor(c) ==
  LET c1 == [c EXCEPT !.score_manager =
                        ScoreManager_add_points(c.score_manager, POINTS_PER_FRUIT),
                      !.speed = c.speed - SPEED_INCREASE,
                      !.eaten = c.eaten + 1]
  IN  {IF o.outcome = "returned"
       THEN [c1 EXCEPT !.fruit = o.fruit]
       ELSE [c1 EXCEPT !.halt = o.outcome] :
         o \in Fruit_spawn(c1.fruit, c1.snake.segments)}

\* GameController._eat_fruit
eat_fruit(c) ==
  LET c1 == [c EXCEPT !.score_manager =
                        ScoreManager_add_points(c.score_manager, POINTS_PER_FRUIT),
                      !.speed = Max(MIN_SPEED, c.speed - SPEED_INCREASE),
                      !.eaten = c.eaten + 1]
  IN  {IF o.outcome = "returned"
       THEN [c1 EXCEPT !.fruit = o.fruit]
       ELSE [c1 EXCEPT !.halt = o.outcome] :
         o \in Fruit_spawn(c1.fruit, c1.snake.segments)}

\* The cell _move_snake computes before it moves the snake.
next_head_pos(c) ==
  LET head == Snake_head(c.snake)
      d    == DirectionValue(c.snake.next_direction)
  IN  <<head[1] + d[1], head[2] + d[2]>>

\* Mutant: the self collision is tested against the segments the snake had
\* before the move, the tail that the move removes included.
move_snake_checks_before_pop(c) ==
  LET will_eat_fruit == Fruit_is_eaten_by(c.fruit, next_head_pos(c))
      c1 == [c EXCEPT !.snake = Snake_move(c.snake, will_eat_fruit)]
  IN  IF Snake_check_wall_collision(c1.snake, GRID_WIDTH, GRID_HEIGHT)
      THEN {game_over(c1)}
      ELSE IF next_head_pos(c) \in Elems(c.snake.segments)
      THEN {game_over(c1)}
      ELSE IF will_eat_fruit
      THEN eat_fruit(c1)
      ELSE {c1}

\* GameController._move_snake
move_snake(c) ==
  LET will_eat_fruit == Fruit_is_eaten_by(c.fruit, next_head_pos(c))
      c1 == [c EXCEPT !.snake = Snake_move(c.snake, will_eat_fruit)]
  IN  IF Snake_check_wall_collision(c1.snake, GRID_WIDTH, GRID_HEIGHT)
      THEN {game_over(c1)}
      ELSE IF Snake_check_self_collision(c1.snake)
      THEN {game_over(c1)}
      ELSE IF will_eat_fruit
      THEN eat_fruit(c1)
      ELSE {c1}

\* Mutant: the high-score update is repeated on every tick spent on the
\* game over screen.
update_resubmits(c) ==
  IF GameStateManager_is_state(c.state_manager, "GAME_OVER") THEN {game_over(c)}
  ELSE IF ~GameStateManager_is_state(c.state_manager, "PLAYING") THEN {c}
  ELSE IF c.since_last_move >= c.speed
  THEN {IF c1.halt /= "running" THEN c1 ELSE [c1 EXCEPT !.since_last_move = 0] :
          c1 \in move_snake(c)}
  ELSE {c}

\* Mutant: the snake is moved on every tick, whatever time has passed.
update_ignores_timer(c) ==
  IF ~GameStateManager_is_state(c.state_manager, "PLAYING") THEN {c}
  ELSE {IF c1.halt /= "running" THEN c1 ELSE [c1 EXCEPT !.since_last_move = 0] :
          c1 \in move_snake(c)}

\* GameController._update; last_move_time = current_time makes the time
\* since the last move 0.
update(c) ==
  IF ~GameStateManager_is_state(c.state_manager, "PLAYING") THEN {c}
  ELSE IF c.since_last_move >= c.speed
  THEN {IF c1.halt /= "running" THEN c1 ELSE [c1 EXCEPT !.since_last_move = 0] :
          c1 \in move_snake(c)}
  ELSE {c}

\* GameController._handle_movement_action
handle_movement_action(c, action) ==
  LET direction == get_direction_from_action(action)
  IN  IF direction /= None
      THEN [c EXCEPT !.snake = Snake_set_direction(c.snake, direction)]
      ELSE c

\* GameController._handle_game_start_action
handle_game_start_action(c, action) ==
  IF action = "start_game" THEN start_game(c)
  ELSE IF action = "restart_game" THEN start_game(c)
  ELSE {c}

\* GameController._handle_navigation_action
handle_navigation_action(c, action) ==
  LET state_map == CASE action = "show_splash"        -> "SPLASH"
                     [] action = "show_high_scores"   -> "HIGH_SCORES"
                     [] action = "show_reset_confirm" -> "CONFIRM_RESET"
  IN  [c EXCEPT !.state_manager = GameStateManager_set_state(c.state_manager, state_map)]

\* Mutant: after the confirmation screen the game returns to the screen the
\* confirmation was requested from.
handle_reset_action_back(c, action) ==
  LET c1 == IF action = "confirm_reset"
            THEN [c EXCEPT !.score_manager = ScoreManager_reset_high_scores(c.score_manager),
                           !.scores_file   = ScoreManager_reset_high_scores_store(
                                               c.score_manager, c.scores_file,
                                               c.store_writable)]
            ELSE c
  IN  [c1 EXCEPT !.state_manager =
         GameStateManager_set_state(c1.state_manager, c1.state_manager.previous_state)]

\* GameController._handle_reset_action
handle_reset_action(c, action) ==
  LET c1 == IF action = "confirm_reset"
            THEN [c EXCEPT !.score_manager = ScoreManager_reset_high_scores(c.score_manager),
                           !.scores_file   = ScoreManager_reset_high_scores_store(
                                               c.score_manager, c.scores_file,
                                               c.store_writable)]
            ELSE c
  IN  [c1 EXCEPT !.state_manager = GameStateManager_set_state(c1.state_manager, "SPLASH")]

\* GameController._handle_action
handle_action(c, action) ==
  IF action \in {"move_up", "move_down", "move_left", "move_right"}
  THEN {handle_movement_action(c, action)}
  ELSE IF action \in {"start_game", "restart_game"}
  THEN handle_game_start_action(c, action)
  ELSE IF action \in {"show_splash", "show_high_scores", "show_reset_confirm"}
  THEN {handle_navigation_action(c, action)}
  ELSE IF action \in {"confirm_reset", "cancel_reset"}
  THEN {handle_reset_action(c, action)}
  ELSE {c}

\* GameController._render: what is handed to the renderer.  Drawing reads
\* the controller and changes none of its fields.
render(c) ==
  [screen        |-> c.state_manager.current_state,
   is_high_score |-> IF c.state_manager.current_state = "GAME_OVER"
                     THEN ScoreManager_is_high_score(c.score_manager,
                                                     ScoreOrCurrent(c.score_manager))
                     ELSE FALSE]

\* GameController.__init__
GameController_init(file, writable) ==
  reset_game([snake           |-> Snake_init(INITIAL_SNAKE_LENGTH,
                                             GRID_WIDTH \div 2, GRID_HEIGHT \div 2),
              fruit           |-> Fruit_init(GRID_WIDTH, GRID_HEIGHT),
              state_manager   |-> GameStateManager_init,
              score_manager   |-> ScoreManager_init(file, MAX_SCORES),
              speed           |-> INITIAL_SPEED,
              since_last_move |-> 0,
              scores_file     |-> file,
              store_writable  |-> writable,
              halt            |-> "running",
              hs_log          |-> [calls |-> 0, score |-> 0],
              eaten           |-> 0])

(***************************************************************************)
(* Spec: the GameController under what run() does to it: the actions that  *)
(* handle_event produces from the events of the queue are handled, _update *)
(* is called, time passes.  SpecRun adds the control flow of run(): the    *)
(* local variable running and the exit from the loop.                      *)
(***************************************************************************)
\* The stores the game is started on.
InitialStores == {ListFile(<<0, 0, 0, 0, 0>>)}

Init ==
  /\ \E file \in InitialStores :
       \E c \in GameController_init(file, TRUE) :
          /\ snake = c.snake
          /\ fruit = c.fruit
          /\ state_manager = c.state_manager
          /\ score_manager = c.score_manager
          /\ speed = c.speed
          /\ since_last_move = c.since_last_move
          /\ scores_file = c.scores_file
          /\ store_writable = c.store_writable
          /\ halt = c.halt
          /\ hs_log = c.hs_log
          /\ eaten = c.eaten
  /\ running = TRUE
  /\ loop = "events"
  /\ call = NoCall

\* pygame events: key presses, and events that are no key press.
Events == [type : {"KEYDOWN"}, key : Keys] \cup [type : {"KEYUP", "QUIT"}, key : {"K_a"}]

\* The exploration does not follow a run beyond MaxFruits fruit.
WithinFruitBound(c) ==
  \/ c.state_manager.current_state /= "PLAYING"
  \/ c.since_last_move < c.speed
  \/ ~Fruit_is_eaten_by(c.fruit, next_head_pos(c))
  \/ c.eaten < MaxFruits

\* The exploration of SpecRun does not follow a run beyond MaxRunFruits fruit.
WithinRunBound(c) ==
  \/ c.state_manager.current_state /= "PLAYING"
  \/ c.since_last_move < c.speed
  \/ ~Fruit_is_eaten_by(c.fruit, next_head_pos(c))
  \/ c.eaten < MaxRunFruits

\* run(), lines 61-67: an event that is not pygame.QUIT, whose action is
\* neither None nor "quit", is handled by _handle_action.
KeyPress ==
  /\ loop = "events"
  /\ halt = "running"
  /\ \E event \in Events :
       LET action == handle_event(event, state_manager.current_state)
       IN  /\ event.type /= "QUIT"
           /\ action /= "quit"
           /\ action /= None
           /\ \E c \in handle_action(controller, action) : Becomes(c)
  /\ UNCHANGED <<running, loop, call>>

\* A run() that breaks out of the loop as soon as it sees the quit: the
\* events behind it are dropped and _update and _render are not called.
Quit_exits_immediately ==
  /\ loop = "events"
  /\ halt = "running"
  /\ \E event \in Events :
       event.type = "QUIT" \/ handle_event(event, state_manager.current_state) = "quit"
  /\ running' = FALSE
  /\ loop' = "exited"
  /\ UNCHANGED <<snake, fruit, state_manager, score_manager, speed, since_last_move,
                 scores_file, store_writable, halt, hs_log, eaten, call>>

\* run(), lines 58-59 and 64-65: pygame.QUIT or the action "quit".
Quit ==
  /\ loop = "events"
  /\ halt = "running"
  /\ \E event \in Events :
       event.type = "QUIT" \/ handle_event(event, state_manager.current_state) = "quit"
  /\ running' = FALSE
  /\ UNCHANGED <<snake, fruit, state_manager, score_manager, speed, since_last_move,
                 scores_file, store_writable, loop, halt, hs_log, eaten, call>>

\* run(), line 70: self._update()
Update ==
  /\ loop = "events"
  /\ halt = "running"
  /\ WithinFruitBound(controller)
  /\ \E c \in update(controller) : Becomes(c)
  /\ UNCHANGED <<running, loop, call>>

\* run(), lines 70-76 and the loop test: _update, _render (which changes
\* nothing), and the next iteration or the exit.
FinishTick ==
  /\ loop = "events"
  /\ halt = "running"
  /\ WithinRunBound(controller)
  /\ \E c \in update(controller) :
       /\ Becomes(c)
       /\ loop' = IF c.halt /= "running" \/ running THEN "events" ELSE "exited"
  /\ UNCHANGED <<running, call>>

\* Time passes.
TimePasses ==
  /\ loop = "events"
  /\ halt = "running"
  /\ since_last_move < INITIAL_SPEED
  /\ since_last_move' = Min(since_last_move + TimeStep, INITIAL_SPEED)
  /\ UNCHANGED <<snake, fruit, state_manager, score_manager, speed, scores_file,
                 store_writable, running, loop, halt, hs_log, eaten, call>>

Next == KeyPress \/ Update \/ TimePasses

Spec == Init /\ [][Next]_vars

NextRun == KeyPress \/ Quit \/ FinishTick \/ TimePasses

SpecRun == Init /\ [][NextRun]_vars

(***************************************************************************)
(* SpecSnake: one Snake object; every step is one call of one of its       *)
(* methods.  call records the call: its name, its argument, the snake      *)
(* before it and what it returned.                                         *)
(***************************************************************************)
\* The variables of the game that a specification of one object leaves alone.
GameIdle ==
  /\ state_manager = GameStateManager_init
  /\ score_manager = ScoreManager_init(MissingFile, MAX_SCORES)
  /\ speed = INITIAL_SPEED
  /\ since_last_move = 0
  /\ scores_file = MissingFile
  /\ store_writable = TRUE
  /\ running = FALSE
  /\ loop = "none"
  /\ hs_log = [calls |-> 0, score |-> 0]
  /\ eaten = 0

\* Arguments of Snake(...) and reset(...).
StartXs == {GRID_WIDTH \div 2, GRID_WIDTH - 1}

StartYs == {0, GRID_HEIGHT \div 2}

InitSnake ==
  /\ \E initial_length \in 1..MaxInitLen, start_x \in StartXs, start_y \in StartYs :
       /\ snake = Snake_init(initial_length, start_x, start_y)
       /\ call = [op |-> "init", arg |-> <<initial_length, start_x, start_y>>,
                  before |-> snake, result |-> None]
  /\ fruit = Fruit_init(GRID_WIDTH, GRID_HEIGHT)
  /\ halt = "running"
  /\ GameIdle

\* The exploration keeps the head within one cell of the grid.
InBox(cell) ==
  /\ cell[1] >= -1 /\ cell[1] <= GRID_WIDTH
  /\ cell[2] >= -1 /\ cell[2] <= GRID_HEIGHT

SnakeSetDirection ==
  /\ \E d \in Direction :
       /\ snake' = Snake_set_direction(snake, d)
       /\ call' = [op |-> "set_direction", arg |-> d, before |-> snake,
                   result |-> Snake_set_direction_result(snake, d)]
  /\ UNCHANGED <<fruit, state_manager, score_manager, speed, since_last_move,
                 scores_file, store_writable, running, loop, halt, hs_log, eaten>>

SnakeMove ==
  /\ \E grow \in BOOLEAN :
       /\ InBox(Snake_move_result(snake, grow))
       /\ grow => Snake_length(snake) < MaxSnakeLen
       /\ snake' = Snake_move(snake, grow)
       /\ call' = [op |-> "move", arg |-> grow, before |-> snake,
                   result |-> Snake_move_result(snake, grow)]
  /\ UNCHANGED <<fruit, state_manager, score_manager, speed, since_last_move,
                 scores_file, store_writable, running, loop, halt, hs_log, eaten>>

SnakeReset ==
  /\ \E initial_length \in 1..MaxInitLen, start_x \in StartXs, start_y \in StartYs :
       /\ snake' = Snake_reset(snake, initial_length, start_x, start_y)
       /\ call' = [op |-> "reset", arg |-> <<initial_length, start_x, start_y>>,
                   before |-> snake, result |-> None]
  /\ UNCHANGED <<fruit, state_manager, score_manager, speed, since_last_move,
                 scores_file, store_writable, running, loop, halt, hs_log, eaten>>

\* The grid sizes check_wall_collision is called with.
WallGrids == {<<GRID_WIDTH, GRID_HEIGHT>>, <<GRID_WIDTH - 1, GRID_HEIGHT + 1>>}

SnakeCheckWallCollision ==
  /\ \E grid \in WallGrids :
       call' = [op |-> "check_wall_collision", arg |-> grid, before |-> snake,
                result |-> Snake_check_wall_collision(snake, grid[1], grid[2])]
  /\ UNCHANGED <<snake, fruit, state_manager, score_manager, speed, since_last_move,
                 scores_file, store_writable, running, loop, halt, hs_log, eaten>>

SnakeCheckSelfCollision ==
  /\ call' = [op |-> "check_self_collision", arg |-> <<>>, before |-> snake,
              result |-> Snake_check_self_collision(snake)]
  /\ UNCHANGED <<snake, fruit, state_manager, score_manager, speed, since_last_move,
                 scores_file, store_writable, running, loop, halt, hs_log, eaten>>

NextSnake ==
  \/ SnakeSetDirection
  \/ SnakeMove
  \/ SnakeReset
  \/ SnakeCheckWallCollision
  \/ SnakeCheckSelfCollision

SpecSnake == InitSnake /\ [][NextSnake]_vars

(***************************************************************************)
(* SpecFruit: one Fruit object on a grid of any size from 2 x 2 to         *)
(* MaxGrid x MaxGrid; every step is one call of spawn.  A call that loops  *)
(* forever never returns control: halt becomes "loops" and nothing         *)
(* follows.                                                                *)
(***************************************************************************)
GridSizes == 2..MaxGrid

\* The cells the occupied lists are made of: the interior of the 4 x 4 grid
\* and two cells of the left border.
OccupiedCells == {<<x, y>> : x \in 0..2, y \in 1..2}

\* A list with the elements of the set S.
RECURSIVE ListOf(_)
ListOf(S) ==
  IF S = {} THEN <<>>
  ELSE LET x == CHOOSE x \in S : TRUE IN <<x>> \o ListOf(S \ {x})

InitFruit ==
  /\ \E grid_width \in GridSizes, grid_height \in GridSizes :
       fruit = Fruit_init(grid_width, grid_height)
  /\ call = [op |-> "init", arg |-> <<>>, before |-> fruit,
             outcome |-> "returned", result |-> None]
  /\ snake = Snake_init(INITIAL_SNAKE_LENGTH, GRID_WIDTH \div 2, GRID_HEIGHT \div 2)
  /\ halt = "running"
  /\ GameIdle

FruitSpawn ==
  /\ halt = "running"
  /\ \E occupied \in SUBSET OccupiedCells :
       \E o \in Fruit_spawn(fruit, ListOf(occupied)) :
          /\ fruit' = o.fruit
          /\ halt' = IF o.outcome = "loops" THEN "loops" ELSE halt
          /\ call' = [op |-> "spawn", arg |-> ListOf(occupied), before |-> fruit,
                      outcome |-> o.outcome,
                      result |-> IF o.outcome = "returned" THEN o.fruit.position
                                 ELSE <<>>]
  /\ UNCHANGED <<snake, state_manager, score_manager, speed, since_last_move,
                 scores_file, store_writable, running, loop, hs_log, eaten>>

NextFruit == FruitSpawn

SpecFruit == InitFruit /\ [][NextFruit]_vars

(***************************************************************************)
(* SpecScore: one backing store and the ScoreManager constructed on it;    *)
(* every step is one call of one of its methods, or the construction of a  *)
(* new ScoreManager on the store as it is then.  call records the call:    *)
(* its name, its argument (for a score argument left out, the default      *)
(* current_score), the manager and the store before it, and what it        *)
(* returned.  A constructor or method that raises ends the run: halt       *)
(* becomes "raised".                                                       *)
(***************************************************************************)
\* The variables of the game that SpecScore and SpecState leave alone.
ModelsIdle ==
  /\ snake = Snake_init(INITIAL_SNAKE_LENGTH, GRID_WIDTH \div 2, GRID_HEIGHT \div 2)
  /\ fruit = Fruit_init(GRID_WIDTH, GRID_HEIGHT)
  /\ speed = INITIAL_SPEED
  /\ since_last_move = 0
  /\ running = FALSE
  /\ loop = "none"
  /\ hs_log = [calls |-> 0, score |-> 0]
  /\ eaten = 0

\* The contents of high_scores.json a ScoreManager is first constructed on.
ScoreStores ==
  {MissingFile, CorruptFile, UnreadableFile, ScalarFile, UndecodableFile}
    \cup {ListFile(l) : l \in UNION {[1..n -> 0..MaxScore] : n \in 0..MaxStoreLen}}

\* Whether open(scores_file, 'w') can succeed: a path that cannot be opened
\* for reading (a directory) cannot be opened for writing either.
CanWrite(file, writable) == writable => file.kind /= "unreadable"

\* ScoreManager(scores_file, max_scores): the manager, or none when the
\* constructor raises.
Constructed(file, max_scores) ==
  IF ScoreManager_load_high_scores_raises(file)
  THEN [max_scores |-> max_scores, current_score |-> 0, high_scores |-> <<>>]
  ELSE ScoreManager_init(file, max_scores)

InitScore ==
  /\ \E file \in ScoreStores, max_scores \in 1..MaxMaxScores :
       /\ scores_file = file
       /\ score_manager = Constructed(file, max_scores)
       /\ halt = IF ScoreManager_load_high_scores_raises(file) THEN "raised" ELSE "running"
       /\ call = [op |-> "init", arg |-> max_scores, defaulted |-> FALSE,
                  before |-> score_manager, file |-> file,
                  outcome |-> halt, result |-> FALSE]
  /\ store_writable = TRUE
  /\ state_manager = GameStateManager_init
  /\ ModelsIdle

\* A new ScoreManager on the store as it is now.
ScoreConstruct ==
  /\ halt = "running"
  /\ \E max_scores \in 1..MaxMaxScores :
       /\ score_manager' = Constructed(scores_file, max_scores)
       /\ halt' = IF ScoreManager_load_high_scores_raises(scores_file)
                  THEN "raised" ELSE "running"
       /\ call' = [op |-> "init", arg |-> max_scores, defaulted |-> FALSE,
                   before |-> score_manager, file |-> scores_file,
                   outcome |-> halt', result |-> FALSE]
  /\ UNCHANGED <<snake, fruit, state_manager, speed, since_last_move, scores_file,
                 store_writable, running, loop, hs_log, eaten>>

ScoreUpdateHighScores ==
  /\ halt = "running"
  /\ \E defaulted \in BOOLEAN, writable \in BOOLEAN :
       \E score \in IF defaulted THEN {ScoreOrCurrent(score_manager)} ELSE 0..MaxScore :
          /\ CanWrite(scores_file, writable)
          /\ score_manager' = ScoreManager_update_high_scores(score_manager, score)
          /\ scores_file' = ScoreManager_update_high_scores_store(
                              score_manager, score, scores_file, writable)
          /\ store_writable' = writable
          /\ call' = [op |-> "update_high_scores", arg |-> score,
                      defaulted |-> defaulted,
                      before |-> score_manager, file |-> scores_file,
                      outcome |-> "returned",
                      result |-> ScoreManager_update_high_scores_result(
                                   score_manager, score)]
  /\ UNCHANGED <<snake, fruit, state_manager, speed, since_last_move,
                 running, loop, halt, hs_log, eaten>>

ScoreResetHighScores ==
  /\ halt = "running"
  /\ \E writable \in BOOLEAN :
       /\ CanWrite(scores_file, writable)
       /\ score_manager' = ScoreManager_reset_high_scores(score_manager)
       /\ scores_file' = ScoreManager_reset_high_scores_store(
                           score_manager, scores_file, writable)
       /\ store_writable' = writable
       /\ call' = [op |-> "reset_high_scores", arg |-> 0, defaulted |-> FALSE,
                   before |-> score_manager, file |-> scores_file,
                   outcome |-> "returned", result |-> FALSE]
  /\ UNCHANGED <<snake, fruit, state_manager, speed, since_last_move,
                 running, loop, halt, hs_log, eaten>>

ScoreIsHighScore ==
  /\ halt = "running"
  /\ \E defaulted \in BOOLEAN :
       \E score \in IF defaulted THEN {ScoreOrCurrent(score_manager)} ELSE 0..MaxScore :
          /\ halt' = IF ScoreManager_is_high_score_raises(score_manager)
                     THEN "raised" ELSE "running"
          /\ call' = [op |-> "is_high_score", arg |-> score, defaulted |-> defaulted,
                      before |-> score_manager, file |-> scores_file,
                      outcome |-> halt',
                      result |-> IF ScoreManager_is_high_score_raises(score_manager)
                                 THEN FALSE
                                 ELSE ScoreManager_is_high_score(score_manager, score)]
  /\ UNCHANGED <<snake, fruit, state_manager, score_manager, speed, since_last_move,
                 scores_file, store_writable, running, loop, hs_log, eaten>>

ScoreAddPoints ==
  /\ halt = "running"
  /\ \E points \in 1..MaxScore :
       /\ score_manager.current_score + points <= MaxScore
       /\ score_manager' = ScoreManager_add_points(score_manager, points)
       /\ call' = [op |-> "add_points", arg |-> points, defaulted |-> FALSE,
                   before |-> score_manager, file |-> scores_file,
                   outcome |-> "returned", result |-> FALSE]
  /\ UNCHANGED <<snake, fruit, state_manager, speed, since_last_move, scores_file,
                 store_writable, running, loop, halt, hs_log, eaten>>

ScoreResetCurrentScore ==
  /\ halt = "running"
  /\ score_manager' = ScoreManager_reset_current_score(score_manager)
  /\ call' = [op |-> "reset_current_score", arg |-> 0, defaulted |-> FALSE,
              before |-> score_manager, file |-> scores_file,
              outcome |-> "returned", result |-> FALSE]
  /\ UNCHANGED <<snake, fruit, state_manager, speed, since_last_move, scores_file,
                 store_writable, running, loop, halt, hs_log, eaten>>

NextScore ==
  \/ ScoreConstruct
  \/ ScoreUpdateHighScores
  \/ ScoreResetHighScores
  \/ ScoreIsHighScore
  \/ ScoreAddPoints
  \/ ScoreResetCurrentScore

SpecScore == InitScore /\ [][NextScore]_vars

(***************************************************************************)
(* SpecState: one GameStateManager; every step is one call of set_state or *)
(* reset.  call records the call, the manager before it, and the call      *)
(* before it.                                                              *)
(***************************************************************************)
InitState ==
  /\ state_manager = GameStateManager_init
  /\ call = [op |-> "init", arg |-> "SPLASH", before |-> GameStateManager_init,
             prev_op |-> "none", prev_arg |-> "none"]
  /\ score_manager = ScoreManager_init(MissingFile, MAX_SCORES)
  /\ scores_file = MissingFile
  /\ store_writable = TRUE
  /\ halt = "running"
  /\ ModelsIdle

StateSetState ==
  /\ \E new_state \in GameState :
       /\ state_manager' = GameStateManager_set_state(state_manager, new_state)
       /\ call' = [op |-> "set_state", arg |-> new_state, before |-> state_manager,
                   prev_op |-> call.op, prev_arg |-> call.arg]
  /\ UNCHANGED <<snake, fruit, score_manager, speed, since_last_move, scores_file,
                 store_writable, running, loop, halt, hs_log, eaten>>

StateReset ==
  /\ state_manager' = GameStateManager_reset(state_manager)
  /\ call' = [op |-> "reset", arg |-> "SPLASH", before |-> state_manager,
              prev_op |-> call.op, prev_arg |-> call.arg]
  /\ UNCHANGED <<snake, fruit, score_manager, speed, since_last_move, scores_file,
                 store_writable, running, loop, halt, hs_log, eaten>>

NextState == StateSetState \/ StateReset

SpecState == InitState /\ [][NextState]_vars

(***************************************************************************)
(* Properties.                                                             *)
(***************************************************************************)
OutsideGrid(cell) ==
  cell[1] < 0 \/ cell[1] >= GRID_WIDTH \/ cell[2] < 0 \/ cell[2] >= GRID_HEIGHT

\* A step of Spec that is a simulation step: while PLAYING no key press
\* replaces the segments, so they change only by _move_snake.
SimulationStep ==
  /\ state_manager.current_state = "PLAYING"
  /\ snake'.segments /= snake.segments

\* The transitions of current_state that C1 allows.
AllowedTransitions ==
  {<<"SPLASH", "PLAYING">>, <<"PLAYING", "GAME_OVER">>, <<"GAME_OVER", "PLAYING">>,
   <<"GAME_OVER", "CONFIRM_RESET">>, <<"PLAYING", "CONFIRM_RESET">>,
   <<"SPLASH", "CONFIRM_RESET">>, <<"HIGH_SCORES", "CONFIRM_RESET">>,
   <<"CONFIRM_RESET", "SPLASH">>, <<"GAME_OVER", "HIGH_SCORES">>,
   <<"SPLASH", "HIGH_SCORES">>, <<"HIGH_SCORES", "PLAYING">>,
   <<"HIGH_SCORES", "SPLASH">>}

\* C1: every change of current_state, in a run that starts in SPLASH and is
\* driven by the actions handle_event produces and by _update, is one of the
\* transitions of AllowedTransitions.
C1_OnlyAllowedTransitions ==
  [][state_manager'.current_state /= state_manager.current_state
       => <<state_manager.current_state, state_manager'.current_state>>
            \in AllowedTransitions]_vars

\* C1, witness: a game was lost, the high scores were shown and a new game
\* was started from there.
C1_Witness ==
  /\ state_manager.current_state = "PLAYING"
  /\ state_manager.previous_state = "HIGH_SCORES"

\* C2: a simulation step whose moved head is outside the grid or on another
\* segment of the moved snake ends in GAME_OVER, and leaves the score, the
\* speed and the fruit as they were.
C2_DeathStepHasNoFruitEffects ==
  [][SimulationStep
       => LET moved == snake'.segments
          IN  (OutsideGrid(moved[1]) \/ moved[1] \in Elems(Tail(moved)))
                => /\ state_manager'.current_state = "GAME_OVER"
                   /\ score_manager'.current_score = score_manager.current_score
                   /\ speed' = speed
                   /\ fruit' = fruit]_vars

\* C2, witness: a game lost by running into the snake's own body, with fruit
\* eaten before.
C2_Witness ==
  /\ state_manager.current_state = "GAME_OVER"
  /\ Snake_head(snake) \in Elems(Tail(snake.segments))
  /\ score_manager.current_score > 0

\* C3: a simulation step that the snake survives and whose respawn returns:
\* if the cell ahead of the head held the fruit, the snake is one longer, the
\* score is POINTS_PER_FRUIT higher, the speed is max(MIN_SPEED, speed -
\* SPEED_INCREASE) and the new fruit is on no segment; otherwise length,
\* score, speed and fruit are unchanged.
C3_EatingStep ==
  [][(SimulationStep /\ state_manager'.current_state = "PLAYING" /\ halt' = "running")
       => LET head  == snake.segments[1]
              d     == DirectionValue(snake.next_direction)
              ahead == <<head[1] + d[1], head[2] + d[2]>>
          IN  IF fruit.position = ahead
              THEN /\ Len(snake'.segments) = Len(snake.segments) + 1
                   /\ score_manager'.current_score
                        = score_manager.current_score + POINTS_PER_FRUIT
                   /\ speed' = Max(MIN_SPEED, speed - SPEED_INCREASE)
                   /\ fruit'.position \notin Elems(snake'.segments)
              ELSE /\ Len(snake'.segments) = Len(snake.segments)
                   /\ score_manager'.current_score = score_manager.current_score
                   /\ speed' = speed
                   /\ fruit' = fruit]_vars

\* C3, witness: two fruit eaten in one game, the second of which brought the
\* speed to its floor.
C3_Witness ==
  /\ state_manager.current_state = "PLAYING"
  /\ Len(snake.segments) = INITIAL_SNAKE_LENGTH + 2
  /\ score_manager.current_score = 2 * POINTS_PER_FRUIT
  /\ speed = MIN_SPEED
  /\ snake.segments[1] /= fruit.position

\* C4: while the game over screen is up, update_high_scores has been called
\* exactly once since the game was started, with the final score; while the
\* game is being played it has not been called.
C4_OneUpdatePerDeath ==
  /\ state_manager.current_state = "GAME_OVER"
       => hs_log.calls = 1 /\ hs_log.score = score_manager.current_score
  /\ state_manager.current_state = "PLAYING" => hs_log.calls = 0

\* C4, witness: a game over screen that has been up for some time, after a
\* game with a positive score.
C4_Witness ==
  /\ state_manager.current_state = "GAME_OVER"
  /\ hs_log.calls = 1
  /\ score_manager.current_score > 0
  /\ since_last_move = INITIAL_SPEED

\* C5: the segment list of a snake created or reset with length >= 1 is never
\* empty.
C5_SnakeNeverEmpty == Len(snake.segments) >= 1

\* C5, witness: a snake of one segment has moved without growing.
C5_Witness ==
  /\ call.op = "move"
  /\ call.arg = FALSE
  /\ Len(call.before.segments) = 1

\* C6: move(grow=False) leaves the number of segments unchanged and
\* move(grow=True) increases it by exactly 1.
C6_MoveLength ==
  call.op = "move"
    => Len(snake.segments) = Len(call.before.segments) + (IF call.arg THEN 1 ELSE 0)

\* C6, witness: a growing move upwards to the largest length.
C6_Witness ==
  /\ call.op = "move"
  /\ call.arg = TRUE
  /\ snake.direction = "UP"
  /\ Len(snake.segments) = MaxSnakeLen

\* C7: set_direction(d) is rejected exactly when d is the opposite of
\* direction: then it returns False and changes nothing; otherwise it returns
\* True and changes next_direction to d and nothing else.
C7_SetDirection ==
  call.op = "set_direction"
    => LET before   == call.before
           rejected == call.arg = opposite_directions(before.direction)
       IN  /\ call.result = ~rejected
           /\ rejected => snake = before
           /\ ~rejected => snake = [before EXCEPT !.next_direction = call.arg]

\* C7, witness: a rejected call while the pending direction differs from the
\* applied one (the argument is not the opposite of the pending direction).
C7_Witness ==
  /\ call.op = "set_direction"
  /\ call.result = FALSE
  /\ call.before.next_direction /= call.before.direction
  /\ snake = call.before

\* C8: move makes the pending next_direction the direction, puts the old head
\* plus that direction's vector first, returns it, and keeps the other
\* segments in their order.
C8_Move ==
  call.op = "move"
    => LET before   == call.before
           d        == DirectionValue(before.next_direction)
           new_head == <<before.segments[1][1] + d[1], before.segments[1][2] + d[2]>>
       IN  /\ snake.direction = before.next_direction
           /\ snake.segments[1] = new_head
           /\ call.result = new_head
           /\ \A i \in 2..Len(snake.segments) : snake.segments[i] = before.segments[i - 1]

\* C8, witness: a move in a newly set direction that took the head out of
\* the grid.
C8_Witness ==
  /\ call.op = "move"
  /\ call.before.next_direction /= call.before.direction
  /\ OutsideGrid(snake.segments[1])
  /\ Len(snake.segments) > 1

\* C9: a position returned by spawn is an interior cell of the fruit's grid
\* and is not in the occupied list passed in.
C9_SpawnLegal ==
  (call.op = "spawn" /\ call.outcome = "returned")
    => /\ 1 <= call.result[1] /\ call.result[1] <= fruit.grid_width - 2
       /\ 1 <= call.result[2] /\ call.result[2] <= fruit.grid_height - 2
       /\ call.result \notin Elems(call.arg)
       /\ fruit.position = call.result

\* C9, witness: spawn returned the only free interior cell.
C9_Witness ==
  /\ call.op = "spawn"
  /\ call.outcome = "returned"
  /\ SpawnCells(fruit) \ Elems(call.arg) = {call.result}
  /\ Cardinality(SpawnCells(fruit)) > 1

\* C10: spawn terminates for every occupied list: no call loops forever.
C10_SpawnTerminates == halt /= "loops"

\* The number of entries of list that equal v.
Count(list, v) == Cardinality({i \in DOMAIN list : list[i] = v})

\* list is in descending order.
Descending(list) == \A i \in 1..(Len(list) - 1) : list[i] >= list[i + 1]

\* top holds the n largest values of all (all of them when there are fewer
\* than n), counted with their multiplicity.
Largest(top, all, n) ==
  /\ Len(top) = Min(n, Len(all))
  /\ \A v \in Elems(all) \cup Elems(top) :
       /\ Count(top, v) <= Count(all, v)
       /\ \A w \in Elems(top) : v > w => Count(top, v) = Count(all, v)

\* C11: after construction from any store content and after any sequence of
\* update_high_scores and reset_high_scores calls, high_scores has exactly
\* max_scores entries and is in descending order.
C11_ExactlyMaxScoresSorted ==
  halt = "running" =>
    /\ Len(score_manager.high_scores) = score_manager.max_scores
    /\ Descending(score_manager.high_scores)

\* C12: update_high_scores(score) with score > 0 leaves in high_scores the
\* max_scores largest values of the old list and score, in descending
\* order, saves that list (the store holds it when the write succeeds) and
\* returns whether score is in it.
C12_UpdateHighScores ==
  (call.op = "update_high_scores" /\ call.arg > 0) =>
    /\ call.defaulted => call.arg = call.before.current_score
    /\ Largest(score_manager.high_scores,
               Append(call.before.high_scores, call.arg),
               score_manager.max_scores)
    /\ Descending(score_manager.high_scores)
    /\ score_manager.max_scores = call.before.max_scores
    /\ score_manager.current_score = call.before.current_score
    /\ scores_file = IF store_writable THEN ListFile(score_manager.high_scores)
                     ELSE call.file
    /\ call.result = (call.arg \in Elems(score_manager.high_scores))

\* A score that did not survive the truncation of a full list.
C12_Witness ==
  /\ call.op = "update_high_scores"
  /\ call.arg > 0
  /\ Len(call.before.high_scores) = call.before.max_scores
  /\ call.result = FALSE
  /\ store_writable

\* C13: update_high_scores with the score 0 returns false, leaves
\* high_scores unchanged and writes nothing to the store.
C13_UpdateWithZero ==
  (call.op = "update_high_scores" /\ call.arg = 0) =>
    /\ call.result = FALSE
    /\ score_manager = call.before
    /\ scores_file = call.file

\* The default score 0 on a store that could have been written and has
\* no file yet.
C13_Witness ==
  /\ call.op = "update_high_scores"
  /\ call.arg = 0
  /\ call.defaulted
  /\ store_writable
  /\ scores_file = MissingFile

C15_ConstructNeverRaises ==
  call.op = "init" =>
    /\ call.outcome = "running"
    /\ call.file.kind /= "list" =>
         score_manager.high_scores = [i \in 1..score_manager.max_scores |-> 0]

\* C16: after an update_high_scores call with a positive score or a
\* reset_high_scores call whose write succeeded, a ScoreManager constructed
\* on the store with the same max_scores has the writer's high_scores.
C16_RoundTrip ==
  (/\ \/ call.op = "update_high_scores" /\ call.arg > 0
      \/ call.op = "reset_high_scores"
   /\ store_writable) =>
    /\ ~ScoreManager_load_high_scores_raises(scores_file)
    /\ ScoreManager_init(scores_file, score_manager.max_scores).high_scores
         = score_manager.high_scores

\* A written list that differs from what the store held before and holds a
\* score.
C16_Witness ==
  /\ call.op = "update_high_scores"
  /\ call.arg > 0
  /\ store_writable
  /\ call.file.kind = "list"
  /\ call.file.scores /= score_manager.high_scores
  /\ call.result = TRUE

\* C19: when set_state(s) is called twice in a row with the same s, after
\* the second call current_state is s and previous_state is what it was
\* after the first call.
C19_SetStateIdempotent ==
  (/\ call.op = "set_state"
   /\ call.prev_op = "set_state"
   /\ call.prev_arg = call.arg) =>
    /\ state_manager.current_state = call.arg
    /\ state_manager.previous_state = call.before.previous_state

\* A repeated set_state whose first call changed the state.
C19_Witness ==
  /\ call.op = "set_state"
  /\ call.prev_op = "set_state"
  /\ call.prev_arg = call.arg
  /\ state_manager.previous_state /= None
  /\ state_manager.previous_state /= state_manager.current_state

\* C20: an operation of the GameStateManager (set_state or reset) that
\* leaves current_state at the same value leaves previous_state unchanged.
C20_PreviousOnlyOnChange ==
  (/\ call.op \in {"set_state", "reset"}
   /\ state_manager.current_state = call.before.current_state) =>
    state_manager.previous_state = call.before.previous_state

\* C17: a call of _update performs a simulation step iff current_state is
\* PLAYING and the time since the last move has reached speed; it performs
\* one step and then sets last_move_time to now; every other call leaves
\* snake, fruit, score, speed, last_move_time and state unchanged.
C17_UpdateGating ==
  [][Update =>
       LET due == /\ state_manager.current_state = "PLAYING"
                  /\ since_last_move >= speed
       IN  /\ due => /\ \E grow \in BOOLEAN : snake' = Snake_move(snake, grow)
                     /\ snake'.segments[1] = next_head_pos(controller)
                     /\ halt' = "running" => since_last_move' = 0
           /\ ~due => UNCHANGED <<snake, fruit, state_manager, score_manager,
                                  speed, since_last_move>>]_vars

\* A game in which a step was performed and the next is not due yet.
C17_Witness ==
  /\ state_manager.current_state = "PLAYING"
  /\ Snake_head(snake) /= <<GRID_WIDTH \div 2, GRID_HEIGHT \div 2>>
  /\ since_last_move > 0
  /\ since_last_move < speed

\* A step of Spec that handles the action start_game or restart_game.
StartGameStep ==
  /\ halt' = "running" => state_manager'.current_state = "PLAYING"
  /\ \E event \in Events :
       /\ event.type /= "QUIT"
       /\ handle_event(event, state_manager.current_state)
            \in {"start_game", "restart_game"}
       /\ \E c \in start_game(controller) : Becomes(c)

\* C18: current_score never decreases within a game session, and every
\* start_game or restart_game sets it to 0.
C18_ScoreMonotoneInSession ==
  [][/\ \/ score_manager'.current_score = 0
        \/ halt' /= "running"
        \/ ~StartGameStep
     /\ \/ score_manager'.current_score >= score_manager.current_score
        \/ StartGameStep]_vars

\* A game restarted after a game that scored.
C18_Witness ==
  /\ state_manager.current_state = "PLAYING"
  /\ state_manager.previous_state = "GAME_OVER"
  /\ score_manager.current_score = 0
  /\ score_manager.high_scores[1] > 0

\* C21: check_wall_collision(W, H) returns true iff the head lies outside
\* [0, W) x [0, H).
C21_WallCollision ==
  call.op = "check_wall_collision" =>
    LET head == call.before.segments[1]
    IN  /\ call.result = ~(head \in (0..(call.arg[1] - 1)) \X (0..(call.arg[2] - 1)))
        /\ snake = call.before

\* The head was moved to x = -1 and the check on the game's grid is true.
C21_Witness ==
  /\ call.op = "check_wall_collision"
  /\ call.arg = <<GRID_WIDTH, GRID_HEIGHT>>
  /\ call.before.segments[1][1] = -1
  /\ call.result = TRUE

\* C22: check_self_collision() returns true iff the cell of the head is the
\* cell of a segment other than the head.
C22_SelfCollision ==
  call.op = "check_self_collision" =>
    /\ call.result = (\E i \in 2..Len(call.before.segments) :
                        call.before.segments[i] = call.before.segments[1])
    /\ snake = call.before

\* A snake whose head is on its body.
C22_Witness ==
  /\ call.op = "check_self_collision"
  /\ call.result = TRUE

\* C23: after reset(L, x, y), whatever the snake was, segments has exactly L
\* cells, segment i (from 0) is (x - i, y), and direction and next_direction
\* are RIGHT.
C23_Reset ==
  call.op = "reset" =>
    /\ Len(snake.segments) = call.arg[1]
    /\ \A i \in 0..(call.arg[1] - 1) :
         snake.segments[i + 1] = <<call.arg[2] - i, call.arg[3]>>
    /\ snake.direction = "RIGHT"
    /\ snake.next_direction = "RIGHT"

\* A reset of a snake of another length that was heading elsewhere, with a
\* turn pending.
C23_Witness ==
  /\ call.op = "reset"
  /\ call.before.direction = "UP"
  /\ call.before.next_direction = "LEFT"
  /\ Len(call.before.segments) /= call.arg[1]

\* |a - b|
Distance(a, b) == IF a >= b THEN a - b ELSE b - a

\* C24: in every reachable snake state each pair of consecutive segments is
\* at Manhattan distance exactly 1.
C24_SegmentsAdjacent ==
  \A i \in 1..(Len(snake.segments) - 1) :
     Distance(snake.segments[i][1], snake.segments[i + 1][1])
       + Distance(snake.segments[i][2], snake.segments[i + 1][2]) = 1

\* A snake of the largest length with two bends, after a move.
C24_Witness ==
  /\ call.op = "move"
  /\ Len(snake.segments) = MaxSnakeLen
  /\ snake.segments[1][1] /= snake.segments[3][1]
  /\ snake.segments[1][2] /= snake.segments[3][2]
  /\ snake.segments[3][1] /= snake.segments[5][1]
  /\ snake.segments[3][2] /= snake.segments[5][2]

\* The action handle_event produces, in the current state, from the press
\* of key.
ActionOf(key) ==
  handle_event([type |-> "KEYDOWN", key |-> key], state_manager.current_state)

\* A step of the controller that is _handle_action(action).
HandledStep(action) == \E c \in handle_action(controller, action) : Becomes(c)

\* C25: the R key yields show_reset_confirm in SPLASH, PLAYING, GAME_OVER
\* and HIGH_SCORES and no action in CONFIRM_RESET, and handling
\* show_reset_confirm takes each of the four states to CONFIRM_RESET.
C25_ResetKey ==
  /\ [](ActionOf("K_r") = IF state_manager.current_state = "CONFIRM_RESET"
                          THEN None ELSE "show_reset_confirm")
  /\ [][\/ state_manager'.current_state = "CONFIRM_RESET"
        \/ state_manager.current_state = "CONFIRM_RESET"
        \/ ~HandledStep("show_reset_confirm")]_vars

\* The confirmation was requested from the high scores screen.
C25_Witness ==
  /\ state_manager.current_state = "CONFIRM_RESET"
  /\ state_manager.previous_state = "HIGH_SCORES"

\* C26: from CONFIRM_RESET, confirm_reset and cancel_reset both lead to
\* SPLASH; confirm_reset sets every high score to 0 and saves the list,
\* cancel_reset leaves high_scores and the store unchanged.
C26_ConfirmOrCancel ==
  [][state_manager.current_state = "CONFIRM_RESET" =>
       /\ HandledStep("confirm_reset") =>
            /\ state_manager'.current_state = "SPLASH"
            /\ score_manager'.high_scores =
                 [i \in 1..score_manager.max_scores |-> 0]
            /\ scores_file' = IF store_writable
                              THEN ListFile(score_manager'.high_scores)
                              ELSE scores_file
       /\ HandledStep("cancel_reset") =>
            /\ state_manager'.current_state = "SPLASH"
            /\ UNCHANGED <<score_manager, scores_file>>]_vars

\* The list that held the score of the last game was reset from the
\* confirmation screen.
C26_Witness ==
  /\ state_manager.current_state = "SPLASH"
  /\ state_manager.previous_state = "CONFIRM_RESET"
  /\ hs_log.score > 0
  /\ score_manager.high_scores = [i \in 1..MAX_SCORES |-> 0]
  /\ scores_file = ListFile(score_manager.high_scores)

\* C27: in GAME_OVER and in SPLASH some key press produces show_high_scores,
\* and handling it takes the state to HIGH_SCORES.
C27_HighScoresAvailable ==
  state_manager.current_state \in {"GAME_OVER", "SPLASH"} =>
    /\ \E key \in Keys : ActionOf(key) = "show_high_scores"
    /\ \A c \in handle_action(controller, "show_high_scores") :
         c.state_manager.current_state = "HIGH_SCORES"

\* The actions that turn the snake.
MoveActions == {"move_up", "move_down", "move_left", "move_right"}

\* C28: the direction keys produce the move actions while PLAYING, no key
\* press produces one in any other state, and next_direction changes only
\* while PLAYING or becomes RIGHT by a new game.
C28_MoveKeysOnlyWhilePlaying ==
  /\ [](IF state_manager.current_state = "PLAYING"
        THEN /\ ActionOf("K_UP") = "move_up"
             /\ ActionOf("K_DOWN") = "move_down"
             /\ ActionOf("K_LEFT") = "move_left"
             /\ ActionOf("K_RIGHT") = "move_right"
        ELSE \A key \in Keys : ActionOf(key) \notin MoveActions)
  /\ [][\/ snake'.next_direction = snake.next_direction
        \/ state_manager.current_state = "PLAYING"
        \/ StartGameStep /\ snake'.next_direction = "RIGHT"]_vars

\* A turn is pending in a running game.
C28_Witness ==
  /\ state_manager.current_state = "PLAYING"
  /\ snake.next_direction /= snake.direction
  /\ snake.next_direction = "DOWN"

C30_QuitFinishesTick ==
  /\ [](/\ ActionOf("K_q") = "quit"
        /\ (~running /\ loop = "events" /\ halt = "running") =>
             \E key \in Keys :
                /\ ActionOf(key) \notin {None, "quit"}
                /\ handle_action(controller, ActionOf(key)) /= {}
        /\ loop = "exited" => ~running)
  /\ [][/\ loop = "events"
        /\ running \/ ~running'
        /\ running' => loop' = "events"
        /\ (running /\ ~running') => (loop' = "events" /\ controller' = controller)
        /\ loop' = "exited" => (~running /\ FinishTick)
        /\ ~running => (loop' = "exited" \/ halt' /= "running" \/ ~FinishTick)]_vars

\* The loop was left after a quit, in a game that was being played.
C30_Witness ==
  /\ loop = "exited"
  /\ ~running
  /\ state_manager.current_state = "PLAYING"
  /\ eaten > 0

\* C32: in every reachable state next_direction is not the opposite of
\* direction, whatever key presses arrived since the last move, and no
\* simulation step moves the snake in the direction opposite to that of the
\* step before it.
C32_NoReversal ==
  /\ [](snake.next_direction /= opposite_directions(snake.direction))
  /\ [][SimulationStep => snake'.direction /= opposite_directions(snake.direction)]_vars

\* A snake that has turned round in two moves and has another turn pending.
C32_Witness ==
  /\ state_manager.current_state = "PLAYING"
  /\ snake.direction = "LEFT"
  /\ snake.next_direction = "UP"
  /\ Len(snake.segments) > INITIAL_SNAKE_LENGTH

\* The segments are pairwise distinct cells of the grid.
WellFormed(s) ==
  /\ \A i \in 1..Len(s.segments) : ~OutsideGrid(s.segments[i])
  /\ \A i, j \in 1..Len(s.segments) : i /= j => s.segments[i] /= s.segments[j]

\* C33: while the state is PLAYING every segment is a cell of the grid and no
\* two segments are the same cell; a snake of which that is not true is the
\* snake of a game that has ended by _game_over and has not been replaced by a
\* new game since.
C33_SnakeWellFormedWhilePlaying ==
  /\ state_manager.current_state = "PLAYING" => WellFormed(snake)
  /\ ~WellFormed(snake) =>
       /\ hs_log.calls = 1
       /\ state_manager.current_state /= "PLAYING"
       /\ \/ OutsideGrid(Snake_head(snake))
          \/ Snake_check_self_collision(snake)
       /\ WellFormed([snake EXCEPT !.segments = Tail(snake.segments)])

\* The snake of a game lost at the wall, still there on the splash screen the
\* player came back to.
C33_Witness ==
  /\ state_manager.current_state = "SPLASH"
  /\ OutsideGrid(Snake_head(snake))
  /\ Len(snake.segments) > INITIAL_SNAKE_LENGTH

\* C34: in every state of the controller in which control is not inside a
\* call of Fruit.spawn that does not return, the fruit is on an interior cell
\* that no segment of the snake occupies; a simulation step whose new head is
\* the cell of the fruit leaves the game in PLAYING.
C34_FruitOffSnake ==
  /\ [](halt = "running" =>
          /\ fruit.position \in SpawnCells(fruit)
          /\ fruit.position \notin Elems(snake.segments))
  /\ [][(SimulationStep /\ fruit.position = next_head_pos(controller))
          => /\ state_manager'.current_state = "PLAYING"
             /\ Len(snake'.segments) = Len(snake.segments) + 1
             /\ hs_log' = hs_log]_vars

\* A running game in which the second fruit has just been eaten and a third
\* one spawned.
C34_Witness ==
  /\ state_manager.current_state = "PLAYING"
  /\ halt = "running"
  /\ eaten = 2
  /\ Len(snake.segments) = INITIAL_SNAKE_LENGTH + 2
  /\ since_last_move = 0
  /\ fruit.position \notin Elems(snake.segments)

\* The fruit eaten by the snake s of the current game.
Grown(s) == Len(s.segments) - INITIAL_SNAKE_LENGTH

\* C35: in every reachable state of the controller the score is
\* POINTS_PER_FRUIT for each segment beyond INITIAL_SNAKE_LENGTH, the speed is
\* INITIAL_SPEED less SPEED_INCREASE for each such segment but not below
\* MIN_SPEED, and so the speed lies between MIN_SPEED and INITIAL_SPEED.
C35_ScoreAndSpeedFollowLength ==
  /\ score_manager.current_score = POINTS_PER_FRUIT * Grown(snake)
  /\ speed = Max(MIN_SPEED, INITIAL_SPEED - SPEED_INCREASE * Grown(snake))
  /\ MIN_SPEED <= speed
  /\ speed <= INITIAL_SPEED

\* A game that ended after two fruit, the second of which would have taken
\* the speed below MIN_SPEED.
C35_Witness ==
  /\ state_manager.current_state = "GAME_OVER"
  /\ Grown(snake) = 2
  /\ INITIAL_SPEED - SPEED_INCREASE * Grown(snake) < MIN_SPEED
  /\ speed = MIN_SPEED

\* C36: a simulation step that does not grow the snake and whose new head is
\* the cell the last segment was on is survived: the moved snake has its head
\* on that cell, the same length, no segment under its head, and the state
\* stays PLAYING without a call of _game_over.
C36_TailCellIsFree ==
  [][(/\ SimulationStep
      /\ next_head_pos(controller) = snake.segments[Len(snake.segments)]
      /\ ~Fruit_is_eaten_by(fruit, next_head_pos(controller)))
       => /\ state_manager'.current_state = "PLAYING"
          /\ Snake_head(snake') = snake.segments[Len(snake.segments)]
          /\ Len(snake'.segments) = Len(snake.segments)
          /\ ~Snake_check_self_collision(snake')
          /\ hs_log' = hs_log]_vars

\* A running game whose snake has its last segment in a corner of the grid
\* and its head next to it.  The last segment was reached from the corner, so
\* the snake before the step ended on the one other cell next to the corner,
\* which is the cell the head is on now; and the head is on the border, where
\* no fruit spawns, so the step did not grow the snake.
C36_Witness ==
  LET n    == Len(snake.segments)
      last == snake.segments[n]
      head == Snake_head(snake)
  IN  /\ state_manager.current_state = "PLAYING"
      /\ halt = "running"
      /\ n > INITIAL_SNAKE_LENGTH
      /\ last[1] \in {0, GRID_WIDTH - 1}
      /\ last[2] \in {0, GRID_HEIGHT - 1}
      /\ Distance(head[1], last[1]) + Distance(head[2], last[2]) = 1

\* C37: on the step that enters GAME_OVER the is_high_score flag _render
\* hands to the renderer is the value that step's update_high_scores call
\* returned, and it keeps that value while the state stays GAME_OVER.
C37_FlagIsUpdateResult ==
  [][state_manager'.current_state = "GAME_OVER"
       => render(controller').is_high_score
            = IF state_manager.current_state = "GAME_OVER"
              THEN render(controller).is_high_score
              ELSE ScoreManager_update_high_scores_result(
                     score_manager, ScoreOrCurrent(score_manager))]_vars

\* C38: every step that takes the state from another state to PLAYING leaves
\* a new game: INITIAL_SNAKE_LENGTH segments leftward from the centre of the
\* grid, both directions RIGHT, score 0, speed INITIAL_SPEED, a fruit on an
\* interior cell off the snake, and no time passed since the last move.
C38_EnteringPlayingStartsAfresh ==
  [][(state_manager'.current_state = "PLAYING" /\ state_manager.current_state /= "PLAYING")
       => /\ snake' = [segments       |-> [i \in 1..INITIAL_SNAKE_LENGTH |->
                                             <<GRID_WIDTH \div 2 - (i - 1), GRID_HEIGHT \div 2>>],
                       direction      |-> "RIGHT",
                       next_direction |-> "RIGHT"]
          /\ score_manager'.current_score = 0
          /\ speed' = INITIAL_SPEED
          /\ halt' = "running"
          /\ fruit'.position \in SpawnCells(fruit') \ Elems(snake'.segments)
          /\ since_last_move' = 0]_vars

\* A game just started from the splash screen, after a game of this run in
\* which fruit was eaten was abandoned or lost.
C38_Witness ==
  /\ state_manager.current_state = "PLAYING"
  /\ state_manager.previous_state = "SPLASH"
  /\ eaten > 0
  /\ score_manager.current_score = 0
  /\ score_manager.high_scores = <<0, 0, 0, 0, 0>>
  /\ since_last_move = 0
  /\ Len(snake.segments) = INITIAL_SNAKE_LENGTH

\* C40: a step changes high_scores, or the stored list, only if it is the
\* step from PLAYING to GAME_OVER of a game with a positive score or the
\* handling of confirm_reset on the confirmation screen; every other step,
\* cancel_reset after show_reset_confirm from a running game among them, leaves
\* both as they were.
C40_HighScoresFrame ==
  [][\/ /\ score_manager'.high_scores = score_manager.high_scores
        /\ scores_file' = scores_file
     \/ /\ state_manager.current_state = "PLAYING"
        /\ state_manager'.current_state = "GAME_OVER"
        /\ score_manager.current_score > 0
     \/ /\ state_manager.current_state = "CONFIRM_RESET"
        /\ HandledStep("confirm_reset")]_vars

\* A game with a positive score that was abandoned: back on the splash
\* screen after show_reset_confirm and cancel_reset, its score still in
\* current_score and in no list.
C40_Witness ==
  /\ state_manager.current_state = "SPLASH"
  /\ state_manager.previous_state = "CONFIRM_RESET"
  /\ score_manager.current_score > 0
  /\ hs_log.calls = 0
  /\ score_manager.high_scores = <<0, 0, 0, 0, 0>>
  /\ scores_file = ListFile(<<0, 0, 0, 0, 0>>)
  /\ WellFormed(snake)

\* The controllers the press of key can leave when it is handled in c and
\* takes the game to another state.
KeyExits(c, key) ==
  {c1 \in handle_action(c, handle_event([type |-> "KEYDOWN", key |-> key],
                                        c.state_manager.current_state)) :
     /\ c1.halt = "running"
     /\ c1.state_manager.current_state /= c.state_manager.current_state}

\* Some sequence of at most n key presses, each of which changes the state,
\* ends in PLAYING.
RECURSIVE PlayingWithin(_, _)
PlayingWithin(c, n) ==
  /\ n > 0
  /\ \E key \in Keys :
       \E c1 \in KeyExits(c, key) :
          \/ c1.state_manager.current_state = "PLAYING"
          \/ PlayingWithin(c1, n - 1)

\* C31: in every state in which run() is in its loop and control is not
\* inside a call that does not return, some key press takes the game to
\* another state, and some sequence of at most MaxKeyPresses key presses
\* takes it (back) into PLAYING.
C31_NoTerminalState ==
  (loop = "events" /\ halt = "running") =>
    /\ \E key \in Keys : KeyExits(controller, key) /= {}
    /\ PlayingWithin(controller, MaxKeyPresses)

\* A game started from the game over screen of a lost game, before the quit.
C31_Witness ==
  /\ loop = "events"
  /\ running
  /\ state_manager.current_state = "PLAYING"
  /\ state_manager.previous_state = "GAME_OVER"
  /\ hs_log.calls = 0

\* A tick of run() that comes when the time since the last move has reached
\* INITIAL_SPEED, which no speed exceeds, and no key has been pressed.
IdleTick(c) == update([c EXCEPT !.since_last_move = INITIAL_SPEED])

\* The game of c, left to itself, is over after exactly n such ticks, wherever
\* a fruit eaten on the way respawns (a respawn that does not return ends the
\* ticks, and is not considered).
RECURSIVE GameOverAfter(_, _)
GameOverAfter(c, n) ==
  IF n = 0
  THEN c.state_manager.current_state = "GAME_OVER"
  ELSE /\ c.state_manager.current_state = "PLAYING"
       /\ \A c1 \in IdleTick(c) : c1.halt = "running" => GameOverAfter(c1, n - 1)

\* The snake of a game that has just been started.
AtStart(s) ==
  s = Snake_init(INITIAL_SNAKE_LENGTH, GRID_WIDTH \div 2, GRID_HEIGHT \div 2)

====
